---- MODULE Spec2Model ----
(***************************************************************************)
(* ArduinoMultimeter: the two firmware images of the repository,           *)
(*   "Resistance" (src/Resistance/Resistance.ino, the multimeter) and      *)
(*   "part_000"   (src/unnamed/part_000, the time-constant calibration),   *)
(* as one state machine: the main flow of the image, statement by          *)
(* statement, the TIMER1_OVF interrupt handler, and the hardware the code  *)
(* talks to (timer1, the ADC, the USART, the output ports).                *)
(*                                                                         *)
(* Units.  Time is counted in timer ticks; 250 ticks are one millisecond,  *)
(* so a float number of milliseconds x is held as the integer 250*x, and    *)
(* "(float)TCNT1/250" is TCNT1 ticks.  Floats are held exactly (as         *)
(* integers or as num/den pairs): float rounding is not modelled.          *)
(* Registers are held as the set of the bit positions that are 1.          *)
(***************************************************************************)
EXTENDS Integers, Sequences, FiniteSets, TLC

(* ------------------------------ bounds -------------------------------- *)
\* The tick counter's maximum.  The source counts to 0xFFFF (16 bits); the
\* model counts with a narrower counter so that overflows happen early.
MAX_TICK_VALUE == 7
\* Timer ticks one ADC conversion takes (13 ADC clocks of 128 CPU clocks
\* are 26 ticks of 64 CPU clocks on the hardware).
SamplePeriod == 3
\* Timer ticks after which the model stops counting time in one run; a
\* conversion under way on the ideal charging curve is always finished.
MaxTime == 18
\* The largest true crossing time of the ideal charging curve, in ticks.
MaxTau == 17
\* Start/stop cycles the function-level driver performs.
MaxStarts == 2
\* Reports of part_000's endless report loop that are followed.
MaxReports == 1
\* The float timer1_overflow is loaded in two parts (four bytes on the AVR);
\* a part holds a digit of this base.
LoadBase == 8

(* ------------------------- program constants -------------------------- *)
MODE_IDLE == 0
MODE_CAPACITANCE == 3
MODE_RESISTANCE == 2
MODE_VOLTAGE == 1
MODE_CURRENT == 4

pin_capacitance == 0
pin_resistance == 1
pin_voltage == 2
pin_current == 3
pin_ts == 5
\* const int pin_charge = 4 (PORTB) in Resistance.ino, = 2 (PORTD) in part_000
pin_charge == 4
pin_charge_D == 2
\* part_000: pin_capacitor (A0), the literal 0 of readADC(0)
pin_capacitor == 0

\* bit positions of avr/io.h that the code names
REFS0 == 6
ADEN == 7
ADSC == 6
ADIF == 4
ADPS2 == 2
ADPS1 == 1
ADPS0 == 0
CS11 == 1
CS10 == 0
TOIE1 == 0

MAX_SAMPLE == 1023
\* calculateCapacitance / calculateResistance: "< 647"
THRESHOLD == 647
\* getTimeConstant: "< 645"
THRESHOLD_CAL == 645
\* 250 ticks = 1 millisecond
TICKS_PER_MS == 250
\* tc/10.0 (uF) and tc/100.0f (kOhm)
CAP_DIVISOR == 10
RES_DIVISOR == 100
\* 0.00488f V per count = 488 / 100000;  0.488f mA per count = 488 / 1000
COUNT_NUM == 488
VOLT_DEN == 100000
AMP_DEN == 1000
\* the ASCII code of '0'
ASCII_0 == 48
BYTE == 256

Variants == {"Resistance", "part_000"}

(* ----------------------------- variables ------------------------------ *)
VARIABLES
    variant,          \* which firmware image runs
    driver,           \* "main", or who calls the functions one by one
    pc, stack,        \* main flow: program counter, return addresses
    pin,              \* readADC's argument
    retval,           \* the value the last returning function returned
    t_acc, t_cnt,     \* getMilliseconds: the operands it has read so far
    tc, value,        \* the routines' local tc; main's value / time_constant
    mode,             \* uint8_t mode
    timer1_overflow,  \* float timer1_overflow, in ticks
    TCCR1B, TCNT1, TIMSK1, TOV1, SREG_I,    \* timer1 and the interrupt flag
    ADMUX, ADCSRA, ADC,                     \* the ADC
    DDRB, DDRC, DDRD, PORTB, PORTD,         \* the ports
    RXC0, UDRE0, UDR0, out,                 \* the USART and what was sent
    \* the world outside the chip
    world, stuckAt, tau, chargeClock, adcLeft, convChannel, slack, elapsed,
    \* history, kept for the properties only
    calls, wraps, nReads, prevRead, lastRead, ovfInCall, preVal, postVal,
    starts,           \* calls of startTimer1
    wrapped,          \* an earlier start/stop cycle saw an overflow
    reports

cpu == <<pc, stack, pin, retval>>
locals == <<t_acc, t_cnt, tc, value, mode>>
timerRegs == <<TCCR1B, TCNT1, TIMSK1, TOV1, SREG_I>>
adcRegs == <<ADMUX, ADCSRA, ADC>>
ports == <<DDRB, DDRC, DDRD, PORTB, PORTD>>
usart == <<RXC0, UDRE0, UDR0, out>>
envVars == <<world, stuckAt, tau, chargeClock, adcLeft, convChannel, slack, elapsed>>
readHist == <<nReads, prevRead, lastRead, ovfInCall, preVal, postVal>>
hist == <<calls, wraps, readHist, starts, wrapped, reports>>
vars == <<variant, driver, cpu, locals, timer1_overflow, timerRegs, adcRegs,
          ports, usart, envVars, hist>>

(* --------------------------- bit arithmetic --------------------------- *)
RECURSIVE Pow2(_)
Pow2(n) == IF n = 0 THEN 1 ELSE 2 * Pow2(n - 1)

\* (1 << n)
Bit(n) == {n}
\* an integer as a register value
BitsOf(n) == {i \in 0..7 : (n \div Pow2(i)) % 2 = 1}
\* C's logical not of a register value: !x is 1 when x is 0, else 0
LogicalNot(m) == IF m = {} THEN {0} ELSE {}

\* #define PIN_LOW(port, pin) PORT##port &= !(1 << pin)
PIN_LOW(port, p) == port \cap LogicalNot(Bit(p))
\* #define PIN_HIGH(port, pin) PORT##port |= (1 << pin)
PIN_HIGH(port, p) == port \cup Bit(p)

\* the multiplexer's channel: bits MUX3..MUX0 of ADMUX
MuxChannel(admux) ==
    (IF 0 \in admux THEN 1 ELSE 0) + (IF 1 \in admux THEN 2 ELSE 0)
  + (IF 2 \in admux THEN 4 ELSE 0) + (IF 3 \in admux THEN 8 ELSE 0)

(* ------------------------------ the world ----------------------------- *)
\* The ADC samples the model distinguishes: both sides of every threshold
\* the code tests, zero, and full scale.
Samples == {0, 376, 377, 644, 645, 646, 647, MAX_SAMPLE}

\* The loops' conditions: the routine keeps polling while this holds.
\* a discharge loop that gives up: it polls once and goes on
DischargeWaitOnce(s) == FALSE
\* while (readADC(..) != 0)
DischargeWait(s) == s # 0
\* while (readADC(pin_capacitance) < 647)
CapChargeWait(s) == s < THRESHOLD
\* while (1023 - readADC(pin_resistance) < 647)
ResChargeWait(s) == MAX_SAMPLE - s < THRESHOLD
\* while (readADC(0) < 645)
CalChargeWait(s) == s < THRESHOLD_CAL

\* the charge loop's condition of the routine this run executes
ChargeWait(s) ==
    CASE variant = "part_000" -> CalChargeWait(s)
      [] mode = MODE_RESISTANCE -> ResChargeWait(s)
      [] OTHER -> CapChargeWait(s)

\* the charge line: PORTB bit 4 (Resistance.ino), PORTD bit 2 (part_000)
ChargeHigh ==
    IF variant = "Resistance" THEN pin_charge \in PORTB ELSE pin_charge_D \in PORTD

\* timer1 counts while a clock is selected in TCCR1B
ClockOn == TCCR1B # {}

\* the overflow interrupt is taken as soon as it is raised and enabled
IsrPending == TOV1 /\ TOIE1 \in TIMSK1 /\ SREG_I

\* the pcs inside getMilliseconds between its operand reads
GmMid == {"gm_acc_hi", "gm_cnt_after", "gm_acc_after", "gm_acc_after_hi"}
\* the pcs of a call of getMilliseconds
GmPcs == {"gm_entry", "gm_ret"} \cup GmMid

\* What a conversion can return.  A stuck probe returns one fixed value;
\* on the ideal curve a sample taken while the charge line is active has
\* crossed the routine's threshold exactly when tau ticks have passed since
\* the line was driven active; otherwise any sample.
SampleSet ==
    CASE world = "stuck" -> {stuckAt}
      [] world = "ideal" /\ ChargeHigh ->
            {s \in Samples : (~ChargeWait(s)) <=> (chargeClock >= tau)}
      [] OTHER -> Samples

Funcs == {"calculateCapacitance", "calculateResistance", "getTimeConstant",
          "readADC", "startTimer1", "stopTimer1", "getMilliseconds", "checkMode"}

InitWith(d) ==
    /\ variant \in Variants
    /\ driver = d
    /\ pc = "main" /\ stack = <<>> /\ pin = 0 /\ retval = 0
    /\ t_acc = 0 /\ t_cnt = 0 /\ tc = 0
    /\ value = [num |-> 0, den |-> 1]
    /\ mode = MODE_IDLE
    /\ timer1_overflow = 0
    /\ TCCR1B = {} /\ TCNT1 = 0 /\ TIMSK1 = {} /\ TOV1 = FALSE /\ SREG_I = FALSE
    /\ ADMUX = {} /\ ADCSRA = {} /\ ADC = 0
    /\ DDRB = {} /\ DDRC = {} /\ DDRD = {} /\ PORTB = {} /\ PORTD = {}
    /\ RXC0 = FALSE /\ UDRE0 = TRUE /\ UDR0 = 0 /\ out = <<>>
    /\ world \in (IF d = "tracker" THEN {"ideal"} ELSE {"ideal", "stuck"})
    /\ stuckAt \in (IF world = "stuck" THEN Samples ELSE {0})
    /\ tau = 0 /\ chargeClock = 0 /\ adcLeft = 0 /\ convChannel = 0
    /\ slack = FALSE /\ elapsed = 0
    /\ calls = [f \in Funcs |-> 0]
    /\ wraps = 0 /\ nReads = 0 /\ prevRead = 0 /\ lastRead = 0
    /\ ovfInCall = 0 /\ preVal = 0 /\ postVal = 0
    /\ starts = 0 /\ wrapped = FALSE /\ reports = 0

Init == InitWith("main")
InitTracker == InitWith("tracker")
InitSampler == InitWith("sampler")

(* ---------------------------- the hardware ---------------------------- *)
\* Time passes during a conversion, between the operand reads of
\* getMilliseconds (one tick at most), while the driver idles, and up to
\* the statement of stopTimer1 that disables the clock; every other
\* statement is short against a tick of 64 CPU clocks.
TimePasses ==
    adcLeft > 0 \/ (pc \in GmMid /\ slack) \/ pc = "idle" \/ pc = "sp_entry"

\* One tick of timer1: TCNT1 counts up and wraps past MAX_TICK_VALUE,
\* raising the overflow flag TOV1.
Tick ==
    /\ ClockOn /\ ~IsrPending /\ TimePasses
    /\ elapsed < MaxTime \/ (adcLeft > 0 /\ world = "ideal" /\ ChargeHigh)
    /\ TCNT1' = (TCNT1 + 1) % (MAX_TICK_VALUE + 1)
    /\ TOV1' = (TOV1 \/ TCNT1 = MAX_TICK_VALUE)
    /\ wraps' = IF TCNT1 = MAX_TICK_VALUE THEN wraps + 1 ELSE wraps
    /\ elapsed' = elapsed + 1
    /\ chargeClock' = IF ChargeHigh THEN chargeClock + 1 ELSE chargeClock
    /\ adcLeft' = IF adcLeft > 0 THEN adcLeft - 1 ELSE 0
    /\ slack' = IF adcLeft = 0 /\ pc \in GmMid THEN FALSE ELSE slack
    /\ UNCHANGED <<variant, driver, cpu, locals, timer1_overflow, TCCR1B, TIMSK1,
                   SREG_I, adcRegs, ports, usart, world, stuckAt, tau, convChannel,
                   calls, readHist, starts, wrapped, reports>>

\* ISR (TIMER1_OVF_vect): what the handler adds to timer1_overflow.
\* Resistance.ino: (float)(0xFFFF)/250.0f;  part_000: (float)TCNT1/250
OverflowIncrementFull == MAX_TICK_VALUE
OverflowIncrement ==
    IF variant = "Resistance" THEN MAX_TICK_VALUE ELSE TCNT1

\* ISR (TIMER1_OVF_vect): runs to completion (interrupts are off inside it);
\* the hardware clears TOV1 when the vector is taken.
TIMER1_OVF_vect ==
    /\ IsrPending
    /\ timer1_overflow' = timer1_overflow + OverflowIncrement
    /\ TOV1' = FALSE
    /\ IF pc \in GmPcs
         THEN /\ ovfInCall' = ovfInCall + 1
              /\ preVal' = timer1_overflow + MAX_TICK_VALUE
              /\ postVal' = timer1_overflow' + TCNT1
         ELSE UNCHANGED <<ovfInCall, preVal, postVal>>
    /\ UNCHANGED <<variant, driver, cpu, locals, TCCR1B, TCNT1, TIMSK1, SREG_I,
                   adcRegs, ports, usart, envVars, calls, wraps, nReads, prevRead,
                   lastRead, starts, wrapped, reports>>

\* The ADC finishes the conversion readADC started: ADSC falls, ADIF rises,
\* the sample is in ADC.
ADCComplete ==
    /\ ADSC \in ADCSRA /\ adcLeft = 0
    /\ \E s \in SampleSet : ADC' = s
    /\ ADCSRA' = (ADCSRA \ {ADSC}) \cup {ADIF}
    /\ UNCHANGED <<variant, driver, cpu, locals, timer1_overflow, timerRegs, ADMUX,
                   ports, usart, envVars, hist>>

\* The USART has shifted the byte out: the data register is empty again.
TxReady ==
    /\ ~UDRE0
    /\ UDRE0' = TRUE
    /\ UNCHANGED <<variant, driver, cpu, locals, timer1_overflow, timerRegs, adcRegs,
                   ports, RXC0, UDR0, out, envVars, hist>>

\* The host sends the mode byte while checkMode waits for it.
Receive ==
    /\ pc = "cm_wait" /\ ~RXC0
    /\ \E b \in 0..(BYTE - 1) : UDR0' = b
    /\ RXC0' = TRUE
    /\ UNCHANGED <<variant, driver, cpu, locals, timer1_overflow, timerRegs, adcRegs,
                   ports, UDRE0, out, envVars, hist>>

(* --------------------------- the main flow ---------------------------- *)
\* The main flow executes the statement at l; a raised, enabled interrupt
\* is served first.
At(l) == pc = l /\ ~IsrPending
Goto(l) == pc' = l /\ UNCHANGED <<stack, pin, retval>>
CallTo(entry, ret) == pc' = entry /\ stack' = <<ret>> \o stack /\ UNCHANGED retval
Return(v) == pc' = Head(stack) /\ stack' = Tail(stack) /\ retval' = v /\ UNCHANGED pin
Count(f) == calls' = [calls EXCEPT ![f] = IF @ < 2 THEN @ + 1 ELSE @]

\* startTimer1: the statement that resets the tick counter, TCNT1 = 0
StartResetTCNT1 == 0
\* startTimer1 (part_000) and the initTimer1 it calls (Resistance.ino):
\* the value the accumulator is reset to, timer1_overflow = 0
StartResetAccumulatorWrong == MAX_TICK_VALUE
StartResetAccumulator == 0

\* void initTimer1() of Resistance.ino (TCCR1A = 0 has no effect here);
\* void initTimers() of part_000 (the same without the reset).
initTimer1 ==
    /\ \/ /\ At("it_entry")
          /\ TIMSK1' = TIMSK1 \cup BitsOf(1)
          /\ Goto(IF variant = "Resistance" THEN "it_reset" ELSE "it_ret")
          /\ UNCHANGED timer1_overflow
       \/ /\ At("it_reset")
          /\ timer1_overflow' = StartResetAccumulator
          /\ Goto("it_ret")
          /\ UNCHANGED TIMSK1
       \/ /\ At("it_ret")
          /\ Return(retval)
          /\ UNCHANGED <<timer1_overflow, TIMSK1>>
    /\ UNCHANGED <<variant, driver, locals, TCCR1B, TCNT1, TOV1, SREG_I, adcRegs,
                   ports, usart, envVars, hist>>

\* a start or a stop ends the sequence of reads the history is about
ForgetReads ==
    /\ nReads' = 0 /\ prevRead' = 0 /\ lastRead' = 0
    /\ ovfInCall' = 0 /\ preVal' = 0 /\ postVal' = 0

\* void startTimer1().  Resistance.ino: initTimer1(); TCCR1B = ..; TCNT1 = 0.
\* part_000: TCCR1B = ..; timer1_overflow = 0; TCNT1 = 0.
startTimer1 ==
    /\ \/ /\ At("st_entry") /\ variant = "Resistance"
          /\ CallTo("it_entry", "st_clock") /\ UNCHANGED pin
          /\ Count("startTimer1")
          /\ starts' = starts + 1
          /\ UNCHANGED <<timer1_overflow, TCCR1B, TCNT1, elapsed, wraps, readHist>>
       \/ /\ At("st_entry") /\ variant = "part_000"
          /\ TCCR1B' = Bit(CS11) \cup Bit(CS10)
          /\ elapsed' = 0 /\ wraps' = 0 /\ ForgetReads
          /\ Goto("st_reset")
          /\ Count("startTimer1")
          /\ starts' = starts + 1
          /\ UNCHANGED <<timer1_overflow, TCNT1>>
       \/ /\ At("st_clock")
          /\ TCCR1B' = Bit(CS11) \cup Bit(CS10)
          /\ elapsed' = 0 /\ wraps' = 0 /\ ForgetReads
          /\ Goto("st_count")
          /\ UNCHANGED <<timer1_overflow, TCNT1, calls, starts>>
       \/ /\ At("st_reset")
          /\ timer1_overflow' = StartResetAccumulator
          /\ Goto("st_count")
          /\ UNCHANGED <<TCCR1B, TCNT1, elapsed, wraps, readHist, calls, starts>>
       \/ /\ At("st_count")
          /\ TCNT1' = StartResetTCNT1
          /\ Goto("st_ret")
          /\ UNCHANGED <<timer1_overflow, TCCR1B, elapsed, wraps, readHist, calls, starts>>
       \/ /\ At("st_ret")
          /\ Return(retval)
          /\ UNCHANGED <<timer1_overflow, TCCR1B, TCNT1, elapsed, wraps, readHist, calls,
                         starts>>
    /\ UNCHANGED <<variant, driver, locals, TIMSK1, TOV1, SREG_I, adcRegs, ports, usart,
                   world, stuckAt, tau, chargeClock, adcLeft, convChannel, slack,
                   wrapped, reports>>

\* a stopTimer1 that forgets the reset: the accumulator keeps its value
StopResetAccumulatorStale == timer1_overflow
\* stopTimer1: the value the accumulator is reset to, timer1_overflow = 0
StopResetAccumulator == 0

\* void stopTimer1(): TCCR1B = 0; timer1_overflow = 0; TCNT1 = 0.
stopTimer1 ==
    /\ \/ /\ At("sp_entry")
          /\ TCCR1B' = {}
          /\ Goto("sp_reset")
          /\ Count("stopTimer1")
          /\ ForgetReads
          /\ UNCHANGED <<timer1_overflow, TCNT1, wraps, wrapped>>
       \/ /\ At("sp_reset")
          /\ timer1_overflow' = StopResetAccumulator
          /\ wraps' = 0 /\ wrapped' = (wrapped \/ wraps > 0)
          /\ Goto("sp_count")
          /\ UNCHANGED <<TCCR1B, TCNT1, calls, readHist>>
       \/ /\ At("sp_count")
          /\ TCNT1' = 0
          /\ Goto("sp_ret")
          /\ UNCHANGED <<timer1_overflow, TCCR1B, calls, wraps, wrapped, readHist>>
       \/ /\ At("sp_ret")
          /\ Return(retval)
          /\ UNCHANGED <<timer1_overflow, TCCR1B, TCNT1, calls, wraps, wrapped, readHist>>
    /\ UNCHANGED <<variant, driver, locals, TIMSK1, TOV1, SREG_I, adcRegs, ports, usart,
                   envVars, starts, reports>>

\* getMilliseconds: the sum it returns, timer1_overflow + (float)(TCNT1)/250.0f,
\* of the operands as they were read
ElapsedSum(acc, cnt) == acc + cnt

\* float getMilliseconds().  timer1_overflow is not volatile and TCNT1 is, so
\* the build may read the two operands in either order; the accumulator is
\* loaded in two parts, and the overflow handler can run between any two of
\* the three loads.
getMilliseconds ==
    /\ \/ /\ At("gm_entry")
          /\ t_acc' = timer1_overflow % LoadBase
          /\ UNCHANGED t_cnt
          /\ Goto("gm_acc_hi")
          /\ slack' = TRUE /\ ovfInCall' = 0 /\ preVal' = 0 /\ postVal' = 0
          /\ Count("getMilliseconds")
          /\ UNCHANGED <<nReads, prevRead, lastRead>>
       \/ /\ At("gm_entry")
          /\ t_cnt' = TCNT1
          /\ UNCHANGED t_acc
          /\ Goto("gm_acc_after")
          /\ slack' = TRUE /\ ovfInCall' = 0 /\ preVal' = 0 /\ postVal' = 0
          /\ Count("getMilliseconds")
          /\ UNCHANGED <<nReads, prevRead, lastRead>>
       \/ /\ At("gm_acc_hi")
          /\ t_acc' = t_acc + LoadBase * (timer1_overflow \div LoadBase)
          /\ UNCHANGED t_cnt
          /\ Goto("gm_cnt_after")
          /\ UNCHANGED <<slack, ovfInCall, preVal, postVal, calls, nReads, prevRead, lastRead>>
       \/ /\ At("gm_cnt_after")
          /\ t_cnt' = TCNT1
          /\ UNCHANGED t_acc
          /\ Goto("gm_ret")
          /\ UNCHANGED <<slack, ovfInCall, preVal, postVal, calls, nReads, prevRead, lastRead>>
       \/ /\ At("gm_acc_after")
          /\ t_acc' = timer1_overflow % LoadBase
          /\ UNCHANGED t_cnt
          /\ Goto("gm_acc_after_hi")
          /\ UNCHANGED <<slack, ovfInCall, preVal, postVal, calls, nReads, prevRead, lastRead>>
       \/ /\ At("gm_acc_after_hi")
          /\ t_acc' = t_acc + LoadBase * (timer1_overflow \div LoadBase)
          /\ UNCHANGED t_cnt
          /\ Goto("gm_ret")
          /\ UNCHANGED <<slack, ovfInCall, preVal, postVal, calls, nReads, prevRead, lastRead>>
       \/ /\ At("gm_ret")
          /\ Return(ElapsedSum(t_acc, t_cnt))
          /\ nReads' = IF nReads < 2 THEN nReads + 1 ELSE 2
          /\ prevRead' = lastRead
          /\ lastRead' = ElapsedSum(t_acc, t_cnt)
          /\ slack' = FALSE
          /\ t_acc' = 0 /\ t_cnt' = 0
          /\ UNCHANGED <<ovfInCall, preVal, postVal, calls>>
    /\ UNCHANGED <<variant, driver, tc, value, mode, timer1_overflow, timerRegs,
                   adcRegs, ports, usart, world, stuckAt, tau, chargeClock, adcLeft,
                   convChannel, elapsed, wraps, starts, wrapped, reports>>

\* What a write of v to ADCSRA leaves in the register: ADIF is cleared by
\* writing 1 to it and kept by writing 0, ADSC is set by writing 1 and
\* falls only when the conversion ends, the other bits take the value.
WriteADCSRA(v) ==
    ((v \ {ADIF, ADSC}) \cup (IF ADIF \in ADCSRA /\ ADIF \notin v THEN {ADIF} ELSE {}))
        \cup (IF ADSC \in ADCSRA \/ ADSC \in v THEN {ADSC} ELSE {})

\* readADC: ADMUX |= (pin)
SelectChannel(admux, p) == admux \cup BitsOf(p)

\* uint16_t readADC(uint8_t pin)
readADC ==
    /\ \/ /\ At("adc_entry")
          /\ ADMUX' = SelectChannel(ADMUX, pin)
          /\ Goto("adc_start")
          /\ Count("readADC")
          /\ UNCHANGED <<ADCSRA, adcLeft, convChannel>>
       \/ /\ At("adc_start")
          /\ ADCSRA' = WriteADCSRA(ADCSRA \cup Bit(ADSC))
          /\ adcLeft' = IF ClockOn THEN SamplePeriod ELSE 0
          /\ convChannel' = MuxChannel(ADMUX)
          /\ Goto("adc_wait")
          /\ UNCHANGED <<ADMUX, calls>>
       \/ /\ At("adc_wait")
          /\ ADIF \in ADCSRA
          /\ Goto("adc_clear")
          /\ UNCHANGED <<ADMUX, ADCSRA, adcLeft, convChannel, calls>>
       \/ /\ At("adc_clear")
          /\ ADCSRA' = WriteADCSRA(ADCSRA \cup Bit(ADIF))
          /\ Goto("adc_ret")
          /\ UNCHANGED <<ADMUX, adcLeft, convChannel, calls>>
       \/ /\ At("adc_ret")
          /\ Return(ADC)
          /\ UNCHANGED <<ADMUX, ADCSRA, adcLeft, convChannel, calls>>
    /\ UNCHANGED <<variant, driver, locals, timer1_overflow, timerRegs, ADC, ports,
                   usart, world, stuckAt, tau, chargeClock, slack, elapsed, wraps,
                   readHist, starts, wrapped, reports>>

\* const int pin_led[4] = {4,5,6,7}, indexed from 1 here
pin_led == <<4, 5, 6, 7>>

\* initPins of Resistance.ino: the pins' initial outputs on port B
InitPortB(port) == PIN_HIGH(PIN_LOW(port, pin_charge), pin_ts)
\* PIN_LOW(D, pin_led[0..3])
LedsOff(port) ==
    PIN_LOW(PIN_LOW(PIN_LOW(PIN_LOW(port, pin_led[1]), pin_led[2]), pin_led[3]),
            pin_led[4])

\* void initPins()
initPins ==
    /\ At("ip_entry")
    /\ IF variant = "Resistance"
         THEN /\ DDRC' = {}
              /\ DDRB' = DDRB \cup Bit(pin_ts) \cup Bit(pin_charge)
              /\ DDRD' = DDRD \cup Bit(pin_led[1]) \cup Bit(pin_led[2])
                              \cup Bit(pin_led[3]) \cup Bit(pin_led[4])
              /\ PORTB' = InitPortB(PORTB)
              /\ PORTD' = LedsOff(PORTD)
         ELSE /\ DDRD' = DDRD \cup Bit(pin_charge_D)
              /\ DDRC' = DDRC \cap LogicalNot(Bit(pin_capacitor))
              /\ PORTD' = PIN_LOW(PORTD, pin_charge_D)
              /\ UNCHANGED <<DDRB, PORTB>>
    /\ Return(retval)
    /\ UNCHANGED <<variant, driver, locals, timer1_overflow, timerRegs, adcRegs, usart,
                   envVars, hist>>

\* void initADC(): 5 V reference, channel 0; ADC enabled, prescaler 128
initADC ==
    /\ At("ia_entry")
    /\ ADMUX' = Bit(REFS0)
    /\ ADCSRA' = WriteADCSRA(Bit(ADEN) \cup Bit(ADPS2) \cup Bit(ADPS1) \cup Bit(ADPS0))
    /\ Return(retval)
    /\ UNCHANGED <<variant, driver, locals, timer1_overflow, timerRegs, ADC, ports,
                   usart, envVars, hist>>

\* void initUSART(): frame format, baud rate, receiver and transmitter on;
\* none of it is state the flow reads back
initUSART ==
    /\ At("iu_entry")
    /\ Return(retval)
    /\ UNCHANGED <<variant, driver, locals, timer1_overflow, timerRegs, adcRegs, ports,
                   usart, envVars, hist>>

\* what the flow sends: a string, or a float formatted by dtostrf
Text(str) == [kind |-> "text", text |-> str, val |-> 0]
Float(hundredths) == [kind |-> "float", text |-> "", val |-> hundredths]
\* dtostrf(data, 8, 2, temp): the value rounded to two decimals, in hundredths
Dtostrf(v) == (200 * v.num + v.den) \div (2 * v.den)

\* USART_sendData(char*) as one step: the flow waits for the data register
\* to be empty (UDRE0) and hands the text over.  The texts are written
\* without their tabs and line ends; "" is USART_sendByte('\n').
SendStrings ==
    IF variant = "Resistance" THEN
      { <<"cm272", "SHYAM'S MULTIMETER", "cm273">>,
        <<"cm273", "KEY  FUNCTION", "cm274">>,
        <<"cm274", "1  VOLTMETER", "cm275">>,
        <<"cm275", "2  RESISTANCE METER", "cm276">>,
        <<"cm276", "3  CAPACITANCE METER", "cm277">>,
        <<"cm277", "4  AMMETER", "cm_wait">>,
        <<"m326", "MODE: ", "m330">>,
        <<"m332", "Capacitance meter", "m333">>,
        <<"m333", "Calculating time constant...", "m334">>,
        <<"m335", "The capacitance is: ", "m336">>,
        <<"m337", " uF", "m338">>,
        <<"m338", "", "m373">>,
        <<"m342", "Resistance meter", "m343">>,
        <<"m343", "Calculating time constant...", "m344">>,
        <<"m345", "The resistance is: ", "m346">>,
        <<"m347", " k ohm", "m348">>,
        <<"m348", "", "m373">>,
        <<"m352", "Volt meter", "m353">>,
        <<"m354", "The Voltage is: ", "m355">>,
        <<"m356", " V", "m357">>,
        <<"m357", "", "m373">>,
        <<"m361", "Ammeter", "m362">>,
        <<"m363", "The current is: ", "m364">>,
        <<"m365", " mA", "m366">>,
        <<"m366", "", "m373">>,
        <<"m370", "Invalid", "m373">>,
        <<"m373", "RESET to reuse", "m375">> }
    ELSE
      { <<"tc221", "Callibration complete", "tc_ret">>,
        <<"p235", "Time constant: ", "p236">>,
        <<"p237", "", "p234">> }

\* USART_sendData(float): where main sends its value
SendFloats ==
    IF variant = "Resistance"
      THEN { <<"m336", "m337">>, <<"m346", "m347">>, <<"m355", "m356">>,
             <<"m364", "m365">> }
      ELSE { <<"p236", "p237">> }

USART_sendData ==
    /\ UDRE0
    /\ \/ \E e \in SendStrings :
            /\ At(e[1])
            /\ out' = Append(out, Text(e[2]))
            /\ Goto(e[3])
       \/ \E e \in SendFloats :
            /\ At(e[1])
            /\ out' = Append(out, Float(Dtostrf(value)))
            /\ Goto(e[2])
    /\ UDRE0' = FALSE
    /\ UNCHANGED <<variant, driver, locals, timer1_overflow, timerRegs, adcRegs, ports,
                   RXC0, UDR0, envVars, hist>>

\* checkMode: mode -= '0', in uint8_t
DecodeMode(b) == (b + BYTE - ASCII_0) % BYTE

\* void checkMode(): the menu is sent by USART_sendData; then the flow waits
\* for a byte (RXC0), reads it (which clears RXC0) and subtracts '0'.
checkMode ==
    /\ \/ /\ At("cm_entry")
          /\ Goto("cm272")
          /\ Count("checkMode")
          /\ UNCHANGED <<mode, RXC0>>
       \/ /\ At("cm_wait") /\ RXC0
          /\ mode' = UDR0
          /\ RXC0' = FALSE
          /\ Goto("cm_sub")
          /\ UNCHANGED calls
       \/ /\ At("cm_sub")
          /\ mode' = DecodeMode(mode)
          /\ Goto("cm_ret")
          /\ UNCHANGED <<RXC0, calls>>
       \/ /\ At("cm_ret")
          /\ Return(retval)
          /\ UNCHANGED <<mode, RXC0, calls>>
    /\ UNCHANGED <<variant, driver, t_acc, t_cnt, tc, value, timer1_overflow, timerRegs,
                   adcRegs, ports, UDRE0, UDR0, out, envVars, wraps, readHist, starts, wrapped,
                   reports>>

\* void updateLED()
updateLED ==
    /\ At("ul_entry")
    /\ PORTD' = IF mode >= 1 /\ mode <= 4
                  THEN PIN_HIGH(LedsOff(PORTD), pin_led[mode])
                  ELSE LedsOff(PORTD)
    /\ Return(retval)
    /\ UNCHANGED <<variant, driver, locals, timer1_overflow, timerRegs, adcRegs,
                   DDRB, DDRC, DDRD, PORTB, usart, envVars, hist>>

(* ----------------------- the transient routines ----------------------- *)
\* the steps a routine is made of; each leaves the rest of its state alone
RoutineCall(l, entry, ret, arg) ==
    /\ At(l) /\ CallTo(entry, ret) /\ pin' = arg
    /\ UNCHANGED <<tc, value, PORTB, PORTD, tau, chargeClock>>
RoutineTest(l, waiting, again, next) ==
    /\ At(l) /\ Goto(IF waiting THEN again ELSE next)
    /\ UNCHANGED <<tc, value, PORTB, PORTD, tau, chargeClock>>
\* the charge line is driven active: the charging curve starts, and crosses
\* the threshold after tau ticks
DriveActive ==
    /\ chargeClock' = 0
    /\ tau' \in (IF world = "ideal" THEN 0..MaxTau ELSE {0})
RoutineFrame ==
    UNCHANGED <<variant, driver, t_acc, t_cnt, mode, timer1_overflow, timerRegs,
                adcRegs, DDRB, DDRC, DDRD, usart, world, stuckAt, adcLeft,
                convChannel, slack, elapsed, wraps, readHist, starts, wrapped, reports>>

\* float calculateCapacitance()
calculateCapacitance ==
    /\ \/ /\ At("cap227")
          /\ PORTB' = PIN_LOW(PORTB, pin_charge)
          /\ Goto("cap228")
          /\ Count("calculateCapacitance")
          /\ UNCHANGED <<tc, value, PORTD, tau, chargeClock>>
       \/ /\ RoutineCall("cap228", "adc_entry", "cap228t", pin_capacitance)
          /\ UNCHANGED calls
       \/ /\ RoutineTest("cap228t", DischargeWait(retval), "cap228", "cap231")
          /\ UNCHANGED calls
       \/ /\ RoutineCall("cap231", "st_entry", "cap232", pin)
          /\ UNCHANGED calls
       \/ /\ At("cap232")
          /\ PORTB' = PIN_HIGH(PORTB, pin_charge)
          /\ DriveActive
          /\ Goto("cap233")
          /\ UNCHANGED <<tc, value, PORTD, calls>>
       \/ /\ RoutineCall("cap233", "adc_entry", "cap233t", pin_capacitance)
          /\ UNCHANGED calls
       \/ /\ RoutineTest("cap233t", CapChargeWait(retval), "cap233", "cap235")
          /\ UNCHANGED calls
       \/ /\ RoutineCall("cap235", "gm_entry", "cap235t", pin)
          /\ UNCHANGED calls
       \/ /\ At("cap235t")
          /\ tc' = retval
          /\ Goto("cap236")
          /\ UNCHANGED <<value, PORTB, PORTD, tau, chargeClock, calls>>
       \/ /\ At("cap236")
          /\ PORTB' = PIN_LOW(PORTB, pin_charge)
          /\ Goto("cap237")
          /\ UNCHANGED <<tc, value, PORTD, tau, chargeClock, calls>>
       \/ /\ RoutineCall("cap237", "sp_entry", "cap238", pin)
          /\ UNCHANGED calls
       \/ /\ At("cap238")
          /\ value' = [num |-> tc, den |-> TICKS_PER_MS * CAP_DIVISOR]
          /\ Return(retval)
          /\ UNCHANGED <<tc, PORTB, PORTD, tau, chargeClock, calls>>
    /\ RoutineFrame

\* float calculateResistance()
calculateResistance ==
    /\ \/ /\ At("res250")
          /\ PORTB' = PIN_LOW(PORTB, pin_charge)
          /\ Goto("res251")
          /\ Count("calculateResistance")
          /\ UNCHANGED <<tc, value, PORTD, tau, chargeClock>>
       \/ /\ RoutineCall("res251", "adc_entry", "res251t", pin_resistance)
          /\ UNCHANGED calls
       \/ /\ RoutineTest("res251t", DischargeWait(retval), "res251", "res254")
          /\ UNCHANGED calls
       \/ /\ RoutineCall("res254", "st_entry", "res255", pin)
          /\ UNCHANGED calls
       \/ /\ At("res255")
          /\ PORTB' = PIN_HIGH(PORTB, pin_charge)
          /\ DriveActive
          /\ Goto("res256")
          /\ UNCHANGED <<tc, value, PORTD, calls>>
       \/ /\ RoutineCall("res256", "adc_entry", "res256t", pin_resistance)
          /\ UNCHANGED calls
       \/ /\ RoutineTest("res256t", ResChargeWait(retval), "res256", "res258")
          /\ UNCHANGED calls
       \/ /\ RoutineCall("res258", "gm_entry", "res258t", pin)
          /\ UNCHANGED calls
       \/ /\ At("res258t")
          /\ tc' = retval
          /\ Goto("res259")
          /\ UNCHANGED <<value, PORTB, PORTD, tau, chargeClock, calls>>
       \/ /\ At("res259")
          /\ PORTB' = PIN_LOW(PORTB, pin_charge)
          /\ Goto("res260")
          /\ UNCHANGED <<tc, value, PORTD, tau, chargeClock, calls>>
       \/ /\ RoutineCall("res260", "sp_entry", "res261", pin)
          /\ UNCHANGED calls
       \/ /\ At("res261")
          /\ value' = [num |-> tc, den |-> TICKS_PER_MS * RES_DIVISOR]
          /\ Return(retval)
          /\ UNCHANGED <<tc, PORTB, PORTD, tau, chargeClock, calls>>
    /\ RoutineFrame

\* float getTimeConstant() of part_000; "Callibration complete" (tc221) is
\* sent by USART_sendData
getTimeConstant ==
    /\ \/ /\ At("tc210")
          /\ PORTD' = PIN_LOW(PORTD, pin_charge_D)
          /\ Goto("tc211")
          /\ Count("getTimeConstant")
          /\ UNCHANGED <<tc, value, PORTB, tau, chargeClock>>
       \/ /\ RoutineCall("tc211", "adc_entry", "tc211t", pin_capacitor)
          /\ UNCHANGED calls
       \/ /\ RoutineTest("tc211t", DischargeWait(retval), "tc211", "tc214")
          /\ UNCHANGED calls
       \/ /\ RoutineCall("tc214", "st_entry", "tc215", pin)
          /\ UNCHANGED calls
       \/ /\ At("tc215")
          /\ PORTD' = PIN_HIGH(PORTD, pin_charge_D)
          /\ DriveActive
          /\ Goto("tc216")
          /\ UNCHANGED <<tc, value, PORTB, calls>>
       \/ /\ RoutineCall("tc216", "adc_entry", "tc216t", pin_capacitor)
          /\ UNCHANGED calls
       \/ /\ RoutineTest("tc216t", CalChargeWait(retval), "tc216", "tc217")
          /\ UNCHANGED calls
       \/ /\ RoutineCall("tc217", "gm_entry", "tc217t", pin)
          /\ UNCHANGED calls
       \/ /\ At("tc217t")
          /\ tc' = retval
          /\ Goto("tc218")
          /\ UNCHANGED <<value, PORTB, PORTD, tau, chargeClock, calls>>
       \/ /\ RoutineCall("tc218", "sp_entry", "tc219", pin)
          /\ UNCHANGED calls
       \/ /\ At("tc219")
          /\ PORTD' = PIN_LOW(PORTD, pin_charge_D)
          /\ Goto("tc221")
          /\ UNCHANGED <<tc, value, PORTB, tau, chargeClock, calls>>
       \/ /\ At("tc_ret")
          /\ value' = [num |-> tc, den |-> TICKS_PER_MS]
          /\ Return(retval)
          /\ UNCHANGED <<tc, PORTB, PORTD, tau, chargeClock, calls>>
    /\ RoutineFrame

(* -------------------------------- main -------------------------------- *)
\* value = readADC(pin_voltage)*0.00488f, as num/den volts
toVoltage(sample) == [num |-> sample * COUNT_NUM, den |-> VOLT_DEN]
\* value = readADC(pin_current)*0.488f, as num/den milliamperes
toCurrent(sample) == [num |-> sample * COUNT_NUM, den |-> AMP_DEN]

\* switch(mode) without its default: an unknown mode runs the last case
SwitchTargetNoDefault(m) ==
    CASE m = MODE_CAPACITANCE -> "m332"
      [] m = MODE_RESISTANCE -> "m342"
      [] m = MODE_VOLTAGE -> "m352"
      [] OTHER -> "m361"
\* switch(mode) with the cases of the two routines exchanged
SwitchTargetSwapped(m) ==
    CASE m = MODE_CAPACITANCE -> "m342"
      [] m = MODE_RESISTANCE -> "m332"
      [] m = MODE_VOLTAGE -> "m352"
      [] m = MODE_CURRENT -> "m361"
      [] OTHER -> "m370"
\* switch(mode): the case main takes
SwitchTarget(m) ==
    CASE m = MODE_CAPACITANCE -> "m332"
      [] m = MODE_RESISTANCE -> "m342"
      [] m = MODE_VOLTAGE -> "m352"
      [] m = MODE_CURRENT -> "m361"
      [] OTHER -> "m370"

MainFrame ==
    UNCHANGED <<variant, driver, t_acc, t_cnt, tc, mode, timer1_overflow, TCCR1B,
                TCNT1, TIMSK1, TOV1, adcRegs, ports, usart, envVars, calls, wraps,
                readHist, starts, wrapped>>

\* int main(), up to the first measurement: the initialisation calls.
\* Resistance.ino: initPins(); sei(); initUSART(); initADC();
\* part_000: initPins(); sei(); initADC(); initTimers(); initUSART();
\* The function-level driver runs the same calls and then idles.
mainSetup ==
    /\ \/ /\ At("main")
          /\ CallTo("ip_entry", IF variant = "Resistance" THEN "m319" ELSE "p227")
          /\ UNCHANGED <<pin, SREG_I>>
       \/ /\ At("m319")
          /\ SREG_I' = TRUE
          /\ Goto("m320")
       \/ /\ At("m320")
          /\ CallTo("iu_entry", "m321")
          /\ UNCHANGED <<pin, SREG_I>>
       \/ /\ At("m321")
          /\ CallTo("ia_entry", IF driver = "main" THEN "m324" ELSE "idle")
          /\ UNCHANGED <<pin, SREG_I>>
       \/ /\ At("p227")
          /\ SREG_I' = TRUE
          /\ Goto("p228")
       \/ /\ At("p228")
          /\ CallTo("ia_entry", "p229")
          /\ UNCHANGED <<pin, SREG_I>>
       \/ /\ At("p229")
          /\ CallTo("it_entry", "p230")
          /\ UNCHANGED <<pin, SREG_I>>
       \/ /\ At("p230")
          /\ CallTo("iu_entry", IF driver = "main" THEN "p232" ELSE "idle")
          /\ UNCHANGED <<pin, SREG_I>>
    /\ UNCHANGED <<value, reports>>
    /\ MainFrame

\* int main() of Resistance.ino from checkMode() on, and of part_000 from
\* getTimeConstant() on (its while (1) report loop is followed MaxReports
\* times); the texts are sent by USART_sendData.
main ==
    /\ \/ /\ At("m324")
          /\ CallTo("cm_entry", "m325")
          /\ UNCHANGED <<pin, value, reports>>
       \/ /\ At("m325")
          /\ CallTo("ul_entry", "m326")
          /\ UNCHANGED <<pin, value, reports>>
       \/ /\ At("m330")
          /\ Goto(SwitchTarget(mode))
          /\ UNCHANGED <<value, reports>>
       \/ /\ At("m334")
          /\ CallTo("cap227", "m335")
          /\ UNCHANGED <<pin, value, reports>>
       \/ /\ At("m344")
          /\ CallTo("res250", "m345")
          /\ UNCHANGED <<pin, value, reports>>
       \/ /\ At("m353")
          /\ CallTo("adc_entry", "m353v") /\ pin' = pin_voltage
          /\ UNCHANGED <<value, reports>>
       \/ /\ At("m353v")
          /\ value' = toVoltage(retval)
          /\ Goto("m354")
          /\ UNCHANGED reports
       \/ /\ At("m362")
          /\ CallTo("adc_entry", "m362v") /\ pin' = pin_current
          /\ UNCHANGED <<value, reports>>
       \/ /\ At("m362v")
          /\ value' = toCurrent(retval)
          /\ Goto("m363")
          /\ UNCHANGED reports
       \/ /\ At("m375")
          /\ Goto("done")
          /\ UNCHANGED <<value, reports>>
       \/ /\ At("p232")
          /\ CallTo("tc210", "p234")
          /\ UNCHANGED <<pin, value, reports>>
       \/ /\ At("p234") /\ reports < MaxReports
          /\ reports' = reports + 1
          /\ Goto("p235")
          /\ UNCHANGED value
    /\ UNCHANGED SREG_I
    /\ MainFrame

\* The tracker's caller: from "idle" it calls one function of the
\* elapsed-time tracker, as the routines do: startTimer1 while stopped,
\* stopTimer1 and getMilliseconds while running.
TrackerDriver ==
    /\ At("idle") /\ driver = "tracker"
    /\ \/ /\ ~ClockOn /\ starts < MaxStarts
          /\ CallTo("st_entry", "idle")
       \/ /\ ClockOn
          /\ CallTo("sp_entry", "idle")
       \/ /\ ClockOn
          /\ CallTo("gm_entry", "idle")
    /\ UNCHANGED <<pin, value, reports, SREG_I>>
    /\ MainFrame

\* The sampler's caller: from "idle" it calls readADC on any of the four
\* channels the code names.
SamplerDriver ==
    /\ At("idle") /\ driver = "sampler"
    /\ \E ch \in {pin_capacitance, pin_resistance, pin_voltage, pin_current} :
          pin' = ch
    /\ CallTo("adc_entry", "idle")
    /\ UNCHANGED <<value, reports, SREG_I>>
    /\ MainFrame

(* -------------------------- the specifications ------------------------ *)
Setup == mainSetup \/ initPins \/ initADC \/ initUSART \/ initTimer1

\* a run of either firmware image
Next ==
    \/ Setup \/ main \/ checkMode \/ updateLED \/ USART_sendData
    \/ calculateCapacitance \/ calculateResistance \/ getTimeConstant
    \/ startTimer1 \/ stopTimer1 \/ getMilliseconds \/ readADC
    \/ Tick \/ TIMER1_OVF_vect \/ ADCComplete \/ TxReady \/ Receive

Spec == Init /\ [][Next]_vars

\* the elapsed-time tracker of either image, its functions called one by
\* one after the image's initialisation
NextTracker ==
    \/ Setup \/ TrackerDriver \/ startTimer1 \/ stopTimer1 \/ getMilliseconds
    \/ Tick \/ TIMER1_OVF_vect

SpecTracker == InitTracker /\ [][NextTracker]_vars

\* the sampler of either image, readADC called again and again
NextSampler == Setup \/ SamplerDriver \/ readADC \/ ADCComplete

SpecSampler == InitSampler /\ [][NextSampler]_vars

\* Resistance.ino run to its end.  The processor keeps executing the main
\* flow and serves a raised interrupt, timer1 keeps counting while it has a
\* clock, the ADC finishes every conversion and the transmitter every byte.
InitLive == InitWith("main") /\ variant = "Resistance"
MainFlow ==
    \/ Setup \/ main \/ checkMode \/ updateLED \/ USART_sendData
    \/ calculateCapacitance \/ calculateResistance
    \/ startTimer1 \/ stopTimer1 \/ getMilliseconds \/ readADC
NextLive ==
    \/ MainFlow \/ Tick \/ TIMER1_OVF_vect \/ ADCComplete \/ TxReady \/ Receive
\* a conversion of the discharge polling that returns the sample the wiring
\* settles at when discharged: 0, and 1023 (complement 0) on the resistance
\* channel
DischargedSample ==
    /\ ADCComplete
    /\ stack # <<>> /\ Head(stack) \in {"cap228t", "res251t"}
    /\ ADC' = (IF mode = MODE_RESISTANCE THEN MAX_SAMPLE ELSE 0)
Fairness ==
    /\ WF_vars(MainFlow) /\ WF_vars(Tick) /\ WF_vars(TIMER1_OVF_vect)
    /\ WF_vars(ADCComplete) /\ WF_vars(TxReady) /\ WF_vars(Receive)
    /\ SF_vars(DischargedSample)
SpecLive == InitLive /\ [][NextLive]_vars /\ Fairness

(* ------------------------------ the claims ---------------------------- *)
\* timer1 is Running: a clock is selected and no function of the tracker
\* is rearranging it
Running == ClockOn

\* C1: while timer1 is Running, of two successive calls of getMilliseconds
\* with no stopTimer1/startTimer1 between them, whatever ticks and overflow
\* interrupts occur, the second returns at least what the first returned.
C1_ReadsNeverDecrease == (Running /\ nReads = 2) => lastRead >= prevRead

\* C2: when one timer overflow (the wrap and its handler) falls into a call
\* of getMilliseconds, the call returns accumulator + ticks as they were
\* together just before the overflow or just after it, never a mix.
C2_ReadIsConsistent ==
    (pc \notin GmPcs /\ nReads >= 1 /\ ovfInCall = 1)
        => lastRead \in {preVal, postVal}

\* C3: while Running, every wrap of TCNT1 has made the handler add exactly
\* the full-range duration, whatever TCNT1 holds when the handler runs: n
\* wraps after startTimer1 the accumulator is n full ranges.
C3_AccumulatorCountsWraps ==
    (Running /\ ~IsrPending /\ pc \notin {"st_reset", "st_count"})
        => timer1_overflow = wraps * OverflowIncrementFull

\* C4: after any history of measurements, ticks and overflows, stopTimer1
\* followed by startTimer1 leaves the tracker Running with accumulator 0
\* and tick count 0, and a getMilliseconds that returns within one tick of
\* the start returns at most one tick.
C4_RestartIsZero ==
    /\ (pc = "idle" /\ Running /\ elapsed = 0)
          => (timer1_overflow = 0 /\ TCNT1 = 0)
    /\ (Running /\ nReads >= 1 /\ elapsed <= 1) => lastRead \in {0, 1}
    /\ pc = "st_ret" => (Running /\ timer1_overflow = 0 /\ TCNT1 = 0)
\* a second start, after a cycle that overflowed, and an immediate read
C4_Witness ==
    /\ driver = "tracker" /\ starts = 2 /\ wrapped /\ Running
    /\ pc = "idle" /\ nReads = 1 /\ elapsed = 0

IsFloat(e) == e.kind = "float"
Floats == {i \in 1..Len(out) : IsFloat(out[i])}
Sent(str) == \E i \in 1..Len(out) : out[i] = Text(str)
ValidModes == {MODE_VOLTAGE, MODE_RESISTANCE, MODE_CAPACITANCE, MODE_CURRENT}
\* checkMode has decoded the byte into mode
Decoded ==
    /\ variant = "Resistance" /\ calls["checkMode"] = 1
    /\ pc \notin {"cm272", "cm273", "cm274", "cm275", "cm276", "cm277", "cm_wait",
                  "cm_sub"}

\* C5: for a mode byte that decodes to none of 1, 2, 3, 4, main sends
\* "Invalid" and no quantity, calls neither calculateCapacitance nor
\* calculateResistance nor readADC, never starts timer1 and never drives
\* the charge line active.
C5_InvalidMode ==
    (Decoded /\ mode \notin ValidModes) =>
        /\ calls["calculateCapacitance"] = 0 /\ calls["calculateResistance"] = 0
        /\ calls["readADC"] = 0 /\ calls["startTimer1"] = 0
        /\ ~ClockOn /\ ~ChargeHigh
        /\ Floats = {}
        /\ pc \in {"m373", "m375", "done"} => Sent("Invalid")
C5_Witness ==
    /\ Decoded /\ pc = "done" /\ mode = 9 /\ Sent("Invalid")

\* C6: on an ideal charging curve that crosses the threshold tau ticks
\* after the charge line was driven active, the elapsed time the routine
\* reads at the exit of its charge loop differs from tau by at most one
\* tick plus one ADC sample period, also when the tick counter overflowed
\* during the charge phase.
C6_TauWithinResolution ==
    (world = "ideal" /\ pc \in {"cap236", "tc218"}) =>
        /\ tc - tau <= 1 + SamplePeriod
        /\ tau - tc <= 1 + SamplePeriod

\* the 5 V reference of initADC, in volts
REFERENCE_VOLTS == 5

\* C7: the voltage conversion maps sample 0 to 0 V, maps the full-scale
\* sample 1023 to within one count's worth of volts (0.00488 V) of the 5 V
\* reference, and is strictly increasing over 0..1023.
C7_VoltageConversion ==
    /\ pc = "m354" =>
         /\ retval = 0 => value.num = 0
         /\ retval = MAX_SAMPLE =>
              /\ value.num - REFERENCE_VOLTS * value.den <= COUNT_NUM
              /\ REFERENCE_VOLTS * value.den - value.num <= COUNT_NUM
    /\ \A x \in 0..(MAX_SAMPLE - 1) : toVoltage(x).num < toVoltage(x + 1).num

AdcPcs == {"adc_entry", "adc_start", "adc_wait", "adc_clear", "adc_ret"}

\* C8: every call of readADC converts the channel it was passed, returns
\* only after the conversion-complete flag was seen set, and leaves the
\* flag cleared.
C8_ReadsItsChannel ==
    /\ pc \in {"adc_wait", "adc_clear", "adc_ret"} => convChannel = pin
    /\ pc \in {"adc_clear", "adc_ret"} => ADSC \notin ADCSRA
    /\ pc = "adc_ret" => ADIF \notin ADCSRA

\* the unit main sends after the quantity of a mode
UnitOf(m) ==
    CASE m = MODE_VOLTAGE -> " V"
      [] m = MODE_RESISTANCE -> " k ohm"
      [] m = MODE_CAPACITANCE -> " uF"
      [] OTHER -> " mA"
\* the calls of the measurement operation of each mode: mode 1 and mode 4
\* sample once, on their channel; mode 2 and mode 3 run their routine once
Measured(m) ==
    /\ calls["calculateCapacitance"] = (IF m = MODE_CAPACITANCE THEN 1 ELSE 0)
    /\ calls["calculateResistance"] = (IF m = MODE_RESISTANCE THEN 1 ELSE 0)
    /\ m = MODE_VOLTAGE => (calls["readADC"] = 1 /\ convChannel = pin_voltage)
    /\ m = MODE_CURRENT => (calls["readADC"] = 1 /\ convChannel = pin_current)
C9_AtEnd ==
    (Decoded /\ mode \in ValidModes) =>
        /\ calls["calculateCapacitance"] <= (IF mode = MODE_CAPACITANCE THEN 1 ELSE 0)
        /\ calls["calculateResistance"] <= (IF mode = MODE_RESISTANCE THEN 1 ELSE 0)
        /\ mode \in {MODE_VOLTAGE, MODE_CURRENT} => calls["readADC"] <= 1
        /\ Cardinality(Floats) <= 1
        /\ pc = "done" =>
             /\ Measured(mode)
             /\ \E i \in 1..(Len(out) - 1) :
                  Floats = {i} /\ out[i + 1] = Text(UnitOf(mode))
\* C9: for a decoded mode 1, 2, 3 or 4 a run of main invokes the one
\* measurement operation of that mode, once, and sends exactly one quantity
\* followed by the mode's unit; mode is written by checkMode alone and
\* keeps its value afterwards.
C9_OneMeasurement ==
    /\ []C9_AtEnd
    /\ [][mode' # mode => pc \in {"cm_wait", "cm_sub"}]_vars
C9_Witness ==
    /\ Decoded /\ pc = "done" /\ mode = MODE_RESISTANCE
    /\ calls["calculateResistance"] = 1 /\ Cardinality(Floats) = 1

\* the flow is in the discharge (charge) loop of a transient routine, or in
\* the readADC that loop called
DischargeTests == {"cap228t", "res251t", "tc211t"}
ChargeTests == {"cap233t", "res256t", "tc216t"}
InLoop(tests, reads) ==
    \/ pc \in tests \cup reads
    \/ pc \in AdcPcs /\ stack # <<>> /\ Head(stack) \in tests
InDischargeLoop == InLoop(DischargeTests, {"cap228", "res251", "tc211"})
InChargeLoop == InLoop(ChargeTests, {"cap233", "res256", "tc216"})
RoutineEntered ==
    calls["calculateCapacitance"] + calls["calculateResistance"]
        + calls["getTimeConstant"] > 0

\* C10: there is no timeout.  With the samples stuck at a non-zero value
\* the routine never leaves its discharge loop; stuck at 0, below the
\* threshold, calculateCapacitance and getTimeConstant never leave their
\* charge loop; in both cases no quantity is ever sent.  A run
\* of main that ends has sent its one quantity or "Invalid", nothing else.
C10_NoTimeout ==
    /\ (world = "stuck" /\ stuckAt # 0 /\ RoutineEntered)
          => (InDischargeLoop /\ Floats = {})
    /\ (world = "stuck" /\ stuckAt = 0 /\ RoutineEntered /\ ChargeHigh
          /\ (variant = "part_000" \/ mode = MODE_CAPACITANCE))
          => (InChargeLoop /\ Floats = {})
    /\ pc = "done" =>
          \/ mode \in ValidModes /\ Cardinality(Floats) = 1 /\ ~Sent("Invalid")
          \/ mode \notin ValidModes /\ Floats = {} /\ Sent("Invalid")
C10_Witness ==
    /\ world = "stuck" /\ stuckAt = 0 /\ mode = MODE_CAPACITANCE
    /\ pc = "cap233t" /\ calls["readADC"] = 2 /\ elapsed = MaxTime

\* C11: calculateCapacitance leaves its discharge loop only after a sample
\* equal to 0, and calculateResistance leaves its discharge loop only after
\* a sample whose complement 1023 - sample is 0, a sample equal to 1023.
C11_DischargeTarget ==
    /\ pc = "cap231" => retval = 0
    /\ pc = "res254" => MAX_SAMPLE - retval = 0

\* the statements of main a transient routine returns to, and those after
AfterRoutine == {"m335", "m336", "m337", "m338", "m345", "m346", "m347", "m348",
                 "m373", "m375", "done", "p234", "p235", "p236", "p237"}

\* C12: in every run of a transient routine the charge line is inactive
\* and timer1 not yet started throughout discharge polling; timer1 is
\* started only after a sample that met the discharge target (0, and the
\* sample 1023 whose complement is 0 in calculateResistance); the charge
\* line is driven active only while timer1 is Running; the elapsed time is
\* read after a sample that meets the threshold and while timer1 is still
\* Running; and when the routine has returned timer1 is Stopped and the
\* charge line is inactive.
C12_PhaseOrder ==
    /\ InDischargeLoop => (~ChargeHigh /\ ~ClockOn)
    /\ pc \in {"cap231", "tc214"} => retval = 0
    /\ pc = "res254" => retval = MAX_SAMPLE
    /\ pc \in {"cap232", "res255", "tc215"} => Running
    /\ pc \in {"cap235", "res258", "tc217"} => (Running /\ ~ChargeWait(retval))
    /\ (pc \in GmPcs /\ driver = "main") => Running
    /\ (RoutineEntered /\ pc \in AfterRoutine) => (~ClockOn /\ ~ChargeHigh)

\* the tracker is Stopped: no clock is selected and stopTimer1 is not in
\* the middle of its resets
Stopped == ~ClockOn /\ pc \notin {"sp_reset", "sp_count"}

\* C13: whenever the tracker is Stopped, before the first startTimer1 and
\* from the return of stopTimer1 until the next startTimer1, the overflow
\* accumulator and the tick counter are both zero, also when an overflow
\* was raised just before or during stopTimer1.
C13_StoppedIsZero == Stopped => (timer1_overflow = 0 /\ TCNT1 = 0)
\* Stopped again after a cycle in which the counter overflowed
C13_Witness ==
    /\ Stopped /\ pc = "sp_ret" /\ wrapped /\ calls["stopTimer1"] >= 1

\* the statements of the main flow that write timer1_overflow: the resets
\* in initTimer1, startTimer1 (part_000) and stopTimer1
AccumulatorWrites == {"it_reset", "st_reset", "sp_reset"}
C14_ResetsWhileStopped == pc \in AccumulatorWrites => ~ClockOn

\* C14: while the counting clock is enabled timer1_overflow is written by
\* the overflow handler alone: every reset of the main flow executes with
\* the clock disabled, and no other step changes the accumulator.
C14_OnlyHandlerWrites ==
    /\ []C14_ResetsWhileStopped
    /\ [][(timer1_overflow' # timer1_overflow /\ ClockOn) => IsrPending]_vars

\* C15: in each transient routine a sample that ends the discharge loop
\* does not end the charge loop: the charge loop polls again on it, so with
\* the first charge sample equal to the last discharge sample (as when the
\* input never moves) the routine returns no time constant.
C15_DischargeSampleKeepsCharging ==
    /\ (pc = "cap233t" /\ ~DischargeWait(retval)) => CapChargeWait(retval)
    /\ (pc = "res256t" /\ ~DischargeWait(retval)) => ResChargeWait(retval)
    /\ (pc = "tc216t" /\ ~DischargeWait(retval)) => CalChargeWait(retval)
    /\ (world = "stuck" /\ RoutineEntered) =>
          pc \notin {"cap235", "res258", "tc217"} \cup AfterRoutine

\* the run of main has sent its one quantity and reached its end with
\* timer1 Stopped
Finished == pc = "done" /\ Cardinality(Floats) = 1 /\ Stopped

\* C16: when every conversion completes, the samples reach the discharged
\* level of the wiring and afterwards follow the charging curve across the
\* threshold, and the transmitter becomes ready, a run of main with a
\* decoded mode 1, 2, 3 or 4 eventually sends its result and reaches the
\* end of main with timer1 Stopped, whatever overflows occur.
C16_Terminates ==
    (world = "ideal" /\ Decoded /\ mode \in ValidModes) ~> Finished

\* C17: PIN_LOW and PIN_HIGH change only their own bit of the port: once
\* initPins has driven pin_ts high on port B it stays high, in particular
\* after calculateCapacitance or calculateResistance has driven the charge
\* line low (and the charge line is low then, high after PIN_HIGH).
C17_OnlyItsBit ==
    /\ (variant = "Resistance" /\ pc \notin {"main", "ip_entry"})
          => pin_ts \in PORTB
    /\ pc \in {"cap228", "res251"} => pin_charge \notin PORTB
    /\ pc \in {"cap233", "res256"} => pin_charge \in PORTB

====
